---- MODULE Spec2Model ----
(***************************************************************************)
(* Model of src/frontend/src/components/icons/GraphIcon.tsx: the GraphIcon *)
(* function component and the invocations a caller makes of it.            *)
(*                                                                         *)
(* A React element is a record [type, props, children]; an attribute set   *)
(* (the props of an element, or the props object a caller passes) is a     *)
(* function from attribute names to values, defined exactly on the         *)
(* attributes that are present.                                            *)
(***************************************************************************)
EXTENDS Integers, Sequences, FiniteSets, TLC

\* Bounds of the exploration.
MaxCalls == 2   \* invocations in one run
MaxAttrs == 1   \* attributes present in one props object

\* Attribute names a caller may put in props (React.SVGProps<SVGSVGElement>):
\* the six presentation attributes the root element also sets, and three
\* attributes it does not set.
DefaultedNames == {"width", "height", "strokeWidth", "viewBox", "fill", "color"}
ForwardedNames == {"className", "style", "onClick"}
PropNames == DefaultedNames \cup ForwardedNames

\* Values a caller may give an attribute: a well-formed override and a
\* malformed one.  Neither equals a built-in default.
PropValues == {"48px", "%malformed%"}

\* Every props object with at most MaxAttrs attributes present.
PropsSet ==
  UNION { [S -> PropValues] : S \in { T \in SUBSET PropNames : Cardinality(T) <= MaxAttrs } }

NoProps == [a \in {} |-> "48px"]

VARIABLES
  history,   \* the invocations so far: <<[props, completion, out], ...>>
  arg,       \* the props object of the latest invocation, as the caller sees it after the call
  exports    \* the module's bindings

vars == <<history, arg, exports>>

Element(type, props, children) == [type |-> type, props |-> props, children |-> children]

\* Attributes of the root <svg> element.
RootAttrs ==
  [ width       |-> "24px",
    height      |-> "24px",
    strokeWidth |-> "1.5",
    viewBox     |-> "0 0 24 24",
    fill        |-> "none",
    xmlns       |-> "http://www.w3.org/2000/svg",
    color       |-> "currentColor" ]

Rect(transform) ==
  Element("rect",
          [ width |-> "7", height |-> "5", rx |-> "0.6", transform |-> transform,
            stroke |-> "currentColor", strokeWidth |-> "1.5" ],
          <<>>)

Path(d) ==
  Element("path", [ d |-> d, stroke |-> "currentColor", strokeWidth |-> "1.5" ], <<>>)

\* Children of the root element, in document order.
Children ==
  << Rect("matrix(0 -1 -1 0 22 21)"),
     Rect("matrix(0 -1 -1 0 7 15.5)"),
     Rect("matrix(0 -1 -1 0 22 10)"),
     Path("M17 17.5H13.5C12.3954 17.5 11.5 16.6046 11.5 15.5V8.5C11.5 7.39543 12.3954 6.5 13.5 6.5H17"),
     Path("M11.5 12H7") >>

\* Variants of the component, each with one plausible slip.
\* A default written without its unit.
GraphIcon_WrongDefault(props) ==
  Element("svg", [RootAttrs EXCEPT !.width = "24"], Children)

\* The last child left out.
GraphIcon_DroppedChild(props) ==
  Element("svg", RootAttrs, SubSeq(Children, 1, Len(Children) - 1))

\* An id drawn from a module-level counter of the renders so far.
GraphIcon_Counting(props) ==
  Element("svg",
          [a \in DOMAIN RootAttrs \cup {"id"} |->
             IF a = "id" THEN (IF Len(history) = 0 THEN "icon-0" ELSE "icon-n") ELSE RootAttrs[a]],
          Children)

\* Validation of the attribute values, giving up on a malformed one.
GraphIcon_Validating(props) ==
  IF \E a \in DOMAIN props : props[a] = "%malformed%"
    THEN Element("null", NoProps, <<>>)
    ELSE Element("svg", RootAttrs, Children)

\* The caller's strokeWidth applied to the children.
GraphIcon_PropStroke(props) ==
  Element("svg", RootAttrs,
          [i \in DOMAIN Children |->
             IF "strokeWidth" \in DOMAIN props
               THEN [Children[i] EXCEPT !.props.strokeWidth = props["strokeWidth"]]
               ELSE Children[i]])

\* {...props} spread after the built-in attributes of the root element.
GraphIcon_Spread(props) ==
  Element("svg",
          [a \in DOMAIN RootAttrs \cup DOMAIN props |->
             IF a \in DOMAIN props THEN props[a] ELSE RootAttrs[a]],
          Children)

\* The component: an arrow function with an expression body.  The parameter
\* props is bound and never read.
GraphIcon(props) == Element("svg", RootAttrs, Children)

\* A call that fills the missing defaults into the caller's object.
Invoke_FillDefaults(p) ==
  /\ Len(history) < MaxCalls
  /\ history' = Append(history, [props |-> p, completion |-> "return", out |-> GraphIcon(p)])
  /\ arg' = [a \in DOMAIN p \cup {"width"} |-> IF a \in DOMAIN p THEN p[a] ELSE "24px"]
  /\ UNCHANGED exports

\* One synchronous call GraphIcon(p) by a caller.  The body is a single JSX
\* expression: it writes neither its argument nor any module binding, and the
\* call completes by returning the expression's value.
Invoke(p) ==
  /\ Len(history) < MaxCalls
  /\ history' = Append(history, [props |-> p, completion |-> "return", out |-> GraphIcon(p)])
  /\ arg' = p
  /\ UNCHANGED exports

Init ==
  /\ history = <<>>
  /\ arg = NoProps
  /\ exports = [default |-> "GraphIcon"]

Next == \E p \in PropsSet : Invoke(p)

Spec == Init /\ [][Next]_vars

TypeOK ==
  /\ Len(history) <= MaxCalls
  /\ \A i \in DOMAIN history : history[i].props \in PropsSet

----------------------------------------------------------------------------
Calls == DOMAIN history

\* C1: for every attribute with a built-in default on the root element that
\* the caller supplies, the returned element carries the caller's value.
C1_CallerTakesPrecedence ==
  \A i \in Calls : \A a \in DefaultedNames \cap DOMAIN history[i].props :
    history[i].out.props[a] = history[i].props[a]

\* C2: every supplied attribute without a built-in default is present on the
\* returned root element with exactly the supplied value.
C2_PropsForwarded ==
  \A i \in Calls : \A a \in DOMAIN history[i].props \ DefaultedNames :
    /\ a \in DOMAIN history[i].out.props
    /\ history[i].out.props[a] = history[i].props[a]

\* C3: every defaulted root attribute the caller did not supply has its fixed
\* default in the returned element.
C3_DefaultsWhenAbsent ==
  LET default == [ width |-> "24px", height |-> "24px", strokeWidth |-> "1.5",
                   viewBox |-> "0 0 24 24", fill |-> "none", color |-> "currentColor" ]
  IN \A i \in Calls : \A a \in DefaultedNames \ DOMAIN history[i].props :
       /\ a \in DOMAIN history[i].out.props
       /\ history[i].out.props[a] = default[a]

\* A call has been made that supplies one defaulted attribute and leaves the
\* others to their defaults.
C3_Witness ==
  \E i \in Calls : /\ DOMAIN history[i].props = {"fill"}
                   /\ history[i].out.props["width"] = "24px"

\* C4: a call with empty props returns exactly the baseline glyph: the svg
\* root with the default attributes, three rects then two paths, nothing else.
C4_BaselineGlyph ==
  LET rect(t) == [ type |-> "rect",
                   props |-> [ width |-> "7", height |-> "5", rx |-> "0.6", transform |-> t,
                               stroke |-> "currentColor", strokeWidth |-> "1.5" ],
                   children |-> <<>> ]
      path(d) == [ type |-> "path",
                   props |-> [ d |-> d, stroke |-> "currentColor", strokeWidth |-> "1.5" ],
                   children |-> <<>> ]
      baseline ==
        [ type |-> "svg",
          props |-> [ width |-> "24px", height |-> "24px", strokeWidth |-> "1.5",
                      viewBox |-> "0 0 24 24", fill |-> "none",
                      xmlns |-> "http://www.w3.org/2000/svg", color |-> "currentColor" ],
          children |-> << rect("matrix(0 -1 -1 0 22 21)"),
                          rect("matrix(0 -1 -1 0 7 15.5)"),
                          rect("matrix(0 -1 -1 0 22 10)"),
                          path("M17 17.5H13.5C12.3954 17.5 11.5 16.6046 11.5 15.5V8.5C11.5 7.39543 12.3954 6.5 13.5 6.5H17"),
                          path("M11.5 12H7") >> ]
  IN \A i \in Calls : history[i].props = NoProps => history[i].out = baseline

\* A call with empty props has returned a five-child svg.
C4_Witness ==
  \E i \in Calls : /\ DOMAIN history[i].props = {}
                   /\ history[i].out.type = "svg"
                   /\ Len(history[i].out.children) = 5

\* C5: any two calls with identical props, wherever they stand in the run,
\* return structurally identical output.
C5_Deterministic ==
  \A i, j \in Calls :
    history[i].props = history[j].props => history[i].out = history[j].out

\* The same non-empty props object has been rendered twice.
C5_Witness ==
  \E i, j \in Calls : /\ i < j
                      /\ history[i].props = history[j].props
                      /\ DOMAIN history[i].props # {}

\* C6: a call leaves its props argument and the module's bindings as they
\* were, and does not touch what earlier calls returned.
C6_NoSideEffects ==
  [][ Len(history') = Len(history) + 1 =>
        /\ arg' = history'[Len(history')].props
        /\ exports' = exports
        /\ SubSeq(history', 1, Len(history)) = history ]_vars

\* A second call has returned, with a non-empty props object whose earlier
\* call had different props.
C6_Witness ==
  /\ Len(history) = 2
  /\ DOMAIN arg # {}
  /\ arg = history[2].props
  /\ history[1].props # history[2].props

\* C7: every call, malformed attribute values included, completes by
\* returning an svg element: no throw, no null, no pending value.
C7_AlwaysReturnsSvg ==
  \A i \in Calls : /\ history[i].completion = "return"
                   /\ history[i].out.type = "svg"

\* A call whose props carry a malformed value has completed.
C7_Witness ==
  \E i \in Calls : \E a \in DOMAIN history[i].props :
    history[i].props[a] = "%malformed%" /\ history[i].completion = "return"

\* C8: whatever the props, the children of the returned svg are the baseline
\* three rects and two paths, in order, attribute for attribute.
C8_ChildrenFixed ==
  LET attrs(i) == history[i].out.children
      rectOK(e, t) == /\ e.type = "rect"
                      /\ e.props = [ width |-> "7", height |-> "5", rx |-> "0.6",
                                     transform |-> t, stroke |-> "currentColor",
                                     strokeWidth |-> "1.5" ]
      pathOK(e, d) == /\ e.type = "path"
                      /\ e.props = [ d |-> d, stroke |-> "currentColor", strokeWidth |-> "1.5" ]
  IN \A i \in Calls :
       /\ Len(attrs(i)) = 5
       /\ rectOK(attrs(i)[1], "matrix(0 -1 -1 0 22 21)")
       /\ rectOK(attrs(i)[2], "matrix(0 -1 -1 0 7 15.5)")
       /\ rectOK(attrs(i)[3], "matrix(0 -1 -1 0 22 10)")
       /\ pathOK(attrs(i)[4], "M17 17.5H13.5C12.3954 17.5 11.5 16.6046 11.5 15.5V8.5C11.5 7.39543 12.3954 6.5 13.5 6.5H17")
       /\ pathOK(attrs(i)[5], "M11.5 12H7")

\* A call that supplies strokeWidth has returned.
C8_Witness ==
  \E i \in Calls : /\ "strokeWidth" \in DOMAIN history[i].props
                   /\ Len(history[i].out.children) = 5

\* C9: the output does not depend on props: any two calls, whatever their
\* props, return structurally identical output, root attributes included.
C9_IndependentOfProps ==
  \A i, j \in Calls : history[i].out = history[j].out

\* Two calls with different props have returned.
C9_Witness ==
  \E i, j \in Calls : /\ history[i].props # history[j].props
                      /\ "width" \in DOMAIN history[i].props
                      /\ history[i].out.type = "svg"
                      /\ history[j].out.type = "svg"
====
